---- MODULE Spec2Model ----
(***************************************************************************)
(* Peer sessions and fragment streaming of the storage node:               *)
(* PeerConnectionManager, DataChannelHandler and FileTransferManager.      *)
(*                                                                         *)
(* Node runs every callback to completion; a callback is one action here,  *)
(* and an async function contributes one action per stretch between two    *)
(* awaits that wait for a timer or for I/O.  Time is abstract: a timer     *)
(* that is armed may fire, a deadline that is running may have elapsed.    *)
(***************************************************************************)
EXTENDS Integers, Sequences, FiniteSets, TLC

(* ------------------------------ constants ------------------------------ *)

CHUNK_SIZE == 53 * 1024

maxBufferThreshold == CHUNK_SIZE * 5

HighBufferAmount == 10 * 1024 * 1024

INACTIVITY_TIMEOUT == 10000

\* the period of the inactivity checker and of the activity-refresh ticker
CheckInterval == 5000

(* ------------------------------- bounds -------------------------------- *)

\* the largest fragment, in chunks
MaxChunks == 4

\* READY_NODE requests handled in one run
MaxRequests == 2

\* READY_NODE requests handled in one run of SessionSpec
MaxSessionRequests == 1

\* stats samples published for one peer session in one run of StatsSpec
MaxSamples == 3

\* the largest value of the data channel's bytesSent counter in StatsSpec
MaxBytes == 3

\* chunks framed in one run of FrameSpec
MaxFrames == 2

\* the signaling servers of the settings file
NumServers == 3

\* handleConnect calls that are at an await at the same time
MaxHandlers == 2

\* download commands handled in one run of CommandSpec
MaxBatches == 2

\* the URLs of one download command
MaxUrls == 2

\* the longest chunk of FrameSpec, in bytes
MaxPayload == 2

\* connectToPeer calls made in one run
MaxConnects == 2

\* the PeerConnectionData objects a run creates, in this order; every one is
\* created for the same remote id
Conns == {"p1", "p2"}

\* the objects whose data channel carries the transfers of Spec
Peers == {"p1"}

Sessions == {"s1", "s2"}

\* F0 is empty, F1 ends in a short chunk, F2 is a whole number of chunks,
\* Fx is not in the fragment index
Fragments == {"F0", "F1", "F2", "Fx"}

Slots == 1..MaxRequests

\* the fragment ids of the commands and of the files of the remote directory
FragIds == {"a", "b"}

(* ------------------------------- state --------------------------------- *)

VARIABLES
    alive,             \* the node process is running
    peerConnections,   \* PeerConnectionManager.peerConnections: the objects that
                       \* are a value of the map (one per remote id at most)
    peer,              \* the PeerConnectionData objects
    transferSessions,  \* peerData.transferSessions: session_id -> request (0: none)
    bufferedAmount,    \* dataChannel.bufferedAmount of each object's channel
    nreq,              \* READY_NODE requests received so far
    xfer,              \* per request: its TransferSession, read stream and handler
    frames,            \* per request: the data frames it put on the channel
    control,           \* per request: the control frames it put on the channel,
                       \* in send order
    events,            \* per request: the status events it reported
    signal             \* the signaling socket: connectToPeer calls made, OFFER
                       \* and ANSWER messages emitted

vars == <<alive, peerConnections, peer, transferSessions, bufferedAmount,
          nreq, xfer, frames, control, events, signal>>

(* --------------------------- fragment index ---------------------------- *)

\* SettingUtils.getFragmentPath(id) && fs.existsSync(path)
FragmentExists(f) == f \in {"F0", "F1", "F2", "F6"}

\* fs.statSync(path).size
FileSize(f) ==
    CASE f = "F0" -> 0
      [] f = "F1" -> CHUNK_SIZE + 1
      [] f = "F2" -> MaxChunks * CHUNK_SIZE
      [] f = "F6" -> maxBufferThreshold + CHUNK_SIZE
      [] OTHER -> 0

Min(a, b) == IF a < b THEN a ELSE b

Max(a, b) == IF a > b THEN a ELSE b

(* ------------------------------ records -------------------------------- *)

\* the remote id an object was created for
RemoteId(c) == "A"

\* sdp: the await handleOffer or connectToPeer is at for the object;
\* silence: whole sweeper periods since the last activity event of the peer;
\* closedEvent: connection.close() queued a connectionstatechange event;
\* age: whole sweeper periods since lastActivity was written; finalStats,
\* channelCloses, transportCloses: the calls of reportPeerStats(.., true),
\* dataChannel.close() and connection.close() made for the object;
\* counter: the cumulative bytesSent of the data channel in getStats();
\* stats: bytesSent of peerData.stats; tick, oldStats: a call of reportPeerStats
\* is at its await, with the oldPeerStats it was given; samples: the PEER_STATS
\* messages emitted for the object, each with the report it was computed from
NoPeer ==
    [created |-> FALSE, connection |-> "none", dataChannel |-> "none",
     timeoutId |-> FALSE, statsInterval |-> FALSE, finalStats |-> 0,
     closedEvent |-> FALSE, age |-> 0, timers |-> 0, armed |-> 0,
     channelCloses |-> 0, transportCloses |-> 0,
     sdp |-> "none", silence |-> 0, quiet |-> 0,
     answer |-> "none", ice |-> "none",
     counter |-> 0, stats |-> 0, tick |-> "idle", oldStats |-> 0,
     samples |-> <<>>]

NoXfer ==
    [phase |-> "free", peer |-> "p1", sid |-> "s1", frag |-> "F0",
     status |-> "none", canceled |-> FALSE, error |-> "none",
     totalBytes |-> 0, sentBytes |-> 0,
     stream |-> "none", pos |-> 0,
     pc |-> "idle", chunkOff |-> 0, chunkLen |-> 0, timeoutDuration |-> 0,
     reportId |-> FALSE, reportDue |-> FALSE]

Init ==
    /\ alive = TRUE
    /\ peerConnections = {}
    /\ peer = [p \in Conns |-> NoPeer]
    /\ transferSessions = [p \in Conns |-> [s \in Sessions |-> 0]]
    /\ bufferedAmount = [p \in Conns |-> 0]
    /\ nreq = 0
    /\ xfer = [r \in Slots |-> NoXfer]
    /\ frames = [r \in Slots |-> <<>>]
    /\ control = [r \in Slots |-> <<>>]
    /\ events = [r \in Slots |-> <<>>]
    /\ signal = [connects |-> 0, offers |-> 0, answers |-> 0,
                 socket |-> "none", serverIndex |-> 0, maxServerIndex |-> 0,
                 uri |-> 0, timer |-> FALSE, delay |-> 0, nextServer |-> 0,
                 contacted |-> <<>>, updateInterval |-> 0, appInfo |-> FALSE,
                 signUps |-> 0, signIns |-> 0, event |-> "none",
                 started |-> FALSE, fragmentMap |-> {},
                 disk |-> [f \in FragIds |-> "none"],
                 urls |-> <<>>, pos |-> 0, stream |-> "idle", batches |-> 0,
                 results |-> <<>>, verified |-> <<>>, command |-> "none"]

(* ------------------------- PeerConnectionManager ----------------------- *)

\* fileStream.destroy(): a stream that has ended is already closed
Destroyed(stream) ==
    IF stream \in {"flowing", "paused"} THEN "destroyed" ELSE stream

\* peerConnections.get(clientId) finds object q for the id of object p
InMapFor(q, p) == q \in peerConnections /\ RemoteId(q) = RemoteId(p)

\* clearTimeout(peerData.timeoutId) of updateLastActivity and cleanup: timers
\* counts the pending timeouts of the object, armed the check periods since
\* the pending one was armed
ClearTimer(d) ==
    [d EXCEPT !.timers = IF d.timeoutId THEN @ - 1 ELSE @,
              !.timeoutId = FALSE, !.armed = 0]

\* mutant: the new timeout is set without clearing the one that is pending
ArmTimer_NoClear(d) ==
    [d EXCEPT !.timers = @ + 1, !.timeoutId = TRUE, !.armed = 0]

\* updateLastActivity, the timer: clearTimeout of the pending timeout, then
\* setTimeout(..., INACTIVITY_TIMEOUT)
ArmTimer(d) ==
    [ClearTimer(d) EXCEPT !.timers = @ + 1, !.timeoutId = TRUE]

\* updateLastActivity(clientId), called by a handler of object p: writes
\* lastActivity and re-arms the inactivity timer of the object that is in the
\* map under the id, does nothing when the id is not in the map
UpdateLastActivity(pr, p) ==
    [q \in Conns |->
        IF InMapFor(q, p)
        THEN ArmTimer([pr[q] EXCEPT !.age = 0, !.silence = 0, !.quiet = 0])
        ELSE pr[q]]

\* cleanup(clientId), the part on the PeerConnectionData object in the map;
\* wrtc reports the closed state of a connection that close() closed by a
\* connectionstatechange event
CleanupPeer(pr, p) ==
    [q \in Conns |->
        IF InMapFor(q, p)
        THEN [ClearTimer(pr[q]) EXCEPT
                           !.dataChannel = IF @ = "none" THEN @ ELSE "closed",
                           !.channelCloses =
                               IF pr[q].dataChannel = "none" THEN @ ELSE @ + 1,
                           !.transportCloses = @ + 1,
                           !.closedEvent = (pr[q].connection # "closed"),
                           !.connection = "closed"]
        ELSE pr[q]]

\* cleanup(clientId), the forEach over transferSessions: destroys each file
\* stream; no other field of a session is written
CleanupStreams(xf, p) ==
    [r \in Slots |->
        IF \E q \in Conns, s \in Sessions :
              InMapFor(q, p) /\ transferSessions[q][s] = r
        THEN [xf[r] EXCEPT !.stream = Destroyed(@)]
        ELSE xf[r]]

\* cleanup(clientId), transferSessions.clear()
CleanupSessions(ts, p) ==
    [q \in Conns |->
        IF InMapFor(q, p) THEN [s \in Sessions |-> 0] ELSE ts[q]]

\* cleanup(clientId), peerConnections.delete(clientId)
CleanupMap(pc, p) == {q \in pc : RemoteId(q) # RemoteId(p)}

\* reportPeerStats(.., true): the sample emitted without looking at getStats
FinalSample(d) ==
    [isDisconnected |-> TRUE, bytesSent |-> 0,
     open |-> d.dataChannel = "open", counter |-> d.counter]

\* reportPeerStats(connection, remoteId, oldPeerStats) after getStats: the
\* data-channel entry of the report is read when its state is open
DeltaSample(d) ==
    [isDisconnected |-> FALSE,
     bytesSent |-> IF d.dataChannel = "open" THEN d.counter - d.oldStats ELSE 0,
     open |-> d.dataChannel = "open", counter |-> d.counter]

\* the transport sends n more bytes on the data channel
OnTransportSend(p, n) ==
    /\ alive
    /\ peer[p].dataChannel = "open"
    /\ peer[p].counter + n <= MaxBytes
    /\ peer' = [peer EXCEPT ![p].counter = @ + n]
    /\ UNCHANGED <<alive, peerConnections, transferSessions, bufferedAmount, nreq,
                   xfer, frames, control, events, signal>>

\* the callback of the stats interval up to the await of getStats
OnStatsTick(p) ==
    /\ alive
    /\ peer[p].statsInterval
    /\ peer[p].tick = "idle"
    /\ Len(peer[p].samples) < MaxSamples
    /\ peer' = [peer EXCEPT ![p].tick = "pending", ![p].oldStats = peer[p].stats]
    /\ UNCHANGED <<alive, peerConnections, transferSessions, bufferedAmount, nreq,
                   xfer, frames, control, events, signal>>

\* getStats resolves: the sample is emitted and stored in peerData.stats
OnStatsReport(p) ==
    /\ alive
    /\ peer[p].tick = "pending"
    /\ peer' = [peer EXCEPT ![p].tick = "idle",
                            ![p].stats = DeltaSample(peer[p]).bytesSent,
                            ![p].samples = Append(@, DeltaSample(peer[p]))]
    /\ UNCHANGED <<alive, peerConnections, transferSessions, bufferedAmount, nreq,
                   xfer, frames, control, events, signal>>

\* createPeerConnection(remoteId, onActivityUpdate)
CreatePeerConnection(p) ==
    /\ alive
    /\ ~peer[p].created
    /\ peer' = [peer EXCEPT ![p] = [NoPeer EXCEPT !.created = TRUE,
                                                  !.connection = "new",
                                                  !.statsInterval = TRUE]]
    /\ peerConnections' = CleanupMap(peerConnections, p) \cup {p}
    /\ UNCHANGED <<alive, transferSessions, bufferedAmount, nreq, xfer,
                   frames, control, events>>
    /\ UNCHANGED signal

\* peerConnection.ondatachannel -> DataChannelHandler.setupDataChannel
OnDataChannel(p) ==
    /\ alive
    /\ peer[p].connection \in {"new", "connected"}
    /\ peer[p].dataChannel = "none"
    /\ peer' = [peer EXCEPT ![p].dataChannel = "connecting"]
    /\ UNCHANGED <<alive, peerConnections, transferSessions, bufferedAmount,
                   nreq, xfer, frames, control, events>>
    /\ UNCHANGED signal

\* dataChannel.onopen
OnOpen(p) ==
    /\ alive
    /\ peer[p].dataChannel = "connecting"
    /\ peer' = UpdateLastActivity([peer EXCEPT ![p].dataChannel = "open"], p)
    /\ UNCHANGED <<alive, peerConnections, transferSessions, bufferedAmount,
                   nreq, xfer, frames, control, events>>
    /\ UNCHANGED signal

\* dataChannel.onclose after the remote closed the channel: logs only
OnClose(p) ==
    /\ alive
    /\ peer[p].dataChannel = "open"
    /\ peer' = [peer EXCEPT ![p].dataChannel = "closed"]
    /\ UNCHANGED <<alive, peerConnections, transferSessions, bufferedAmount,
                   nreq, xfer, frames, control, events>>
    /\ UNCHANGED signal

\* peerConnection.onconnectionstatechange
OnConnectionStateChange(p, st) ==
    /\ alive
    /\ peer[p].connection \in {"new", "connected"}
    /\ st # peer[p].connection
    /\ IF st = "connected"
       THEN /\ peer' = UpdateLastActivity([peer EXCEPT ![p].connection = st], p)
            /\ UNCHANGED <<peerConnections, transferSessions, xfer>>
       ELSE /\ peer' = CleanupPeer([peer EXCEPT ![p].connection = st,
                                                ![p].statsInterval = FALSE,
                                                ![p].finalStats = @ + 1,
                                                ![p].samples = Append(@, FinalSample(peer[p]))], p)
            /\ xfer' = CleanupStreams(xfer, p)
            /\ transferSessions' = CleanupSessions(transferSessions, p)
            /\ peerConnections' = CleanupMap(peerConnections, p)
    /\ UNCHANGED <<alive, bufferedAmount, nreq, frames, control, events>>
    /\ UNCHANGED signal

\* the callback of the inactivity timer armed by updateLastActivity
OnInactivityTimeout(p) ==
    /\ alive
    /\ peer[p].timeoutId
    /\ peer' = CleanupPeer([peer EXCEPT ![p] = ClearTimer(@)], p)
    /\ xfer' = CleanupStreams(xfer, p)
    /\ transferSessions' = CleanupSessions(transferSessions, p)
    /\ peerConnections' = CleanupMap(peerConnections, p)
    /\ UNCHANGED <<alive, bufferedAmount, nreq, frames, control, events>>
    /\ UNCHANGED signal

\* peerConnection.onconnectionstatechange for the closed state that close()
\* in cleanup caused: the same handler as above, run for object p
OnClosedEvent(p) ==
    /\ alive
    /\ peer[p].closedEvent
    /\ peer' = CleanupPeer([peer EXCEPT ![p].closedEvent = FALSE,
                                        ![p].statsInterval = FALSE,
                                        ![p].finalStats = @ + 1,
                                        ![p].samples = Append(@, FinalSample(peer[p]))], p)
    /\ xfer' = CleanupStreams(xfer, p)
    /\ transferSessions' = CleanupSessions(transferSessions, p)
    /\ peerConnections' = CleanupMap(peerConnections, p)
    /\ UNCHANGED <<alive, bufferedAmount, nreq, frames, control, events>>
    /\ UNCHANGED signal

\* the transport takes bytes out of the channel's send buffer
Drain(p) ==
    /\ alive
    /\ \E b \in {0, CHUNK_SIZE, CHUNK_SIZE + 1, maxBufferThreshold} :
         /\ b < bufferedAmount[p]
         /\ bufferedAmount' = [bufferedAmount EXCEPT ![p] = b]
    /\ UNCHANGED <<alive, peerConnections, peer, transferSessions, nreq, xfer,
                   frames, control, events>>
    /\ UNCHANGED signal

(* -------------------------- FileTransferManager ------------------------ *)

\* headerSize = 2 + idBuf.length
HeaderSize(sid) == 2 + Len(sid)

\* isLastChunk = sentBytes + chunkBuffer.length >= fileSize
IsLastChunk(sentBytes, len, fileSize) == sentBytes + len >= fileSize

\* the frame built by sendChunk; the payload is named by its place in the file
Frame(sid, last, off, len) ==
    [sid |-> sid, idLen |-> Len(sid), last |-> IF last THEN 1 ELSE 0,
     off |-> off, len |-> len]

\* the largest value Buffer.writeUInt8 accepts; it throws ERR_OUT_OF_RANGE
\* for any other
UInt8Max == 255

\* Buffer.from(sessionId) for a session_id of n bytes
IdBuf(n) == [i \in 1..n |-> 65 + (i % 2)]

\* the session ids of FrameSpec, by their byte length: empty, short, the
\* longest whose length fits a byte, and one byte longer
IdLengths == {0, 1, 2, UInt8Max, UInt8Max + 1}

\* a chunk of n bytes as the read stream delivers it
ChunkBuf(n) == [i \in 1..n |-> i]

\* header.writeUInt8(idBuf.length, 0) succeeds
HeaderFits(idBuf) == Len(idBuf) \in 0..UInt8Max

\* the buffer sendChunk passes to dataChannel.send: the header of two bytes,
\* idBuf copied at 2, the chunk copied at headerSize = 2 + idBuf.length
FrameBytes(idBuf, last, chunk) ==
    <<Len(idBuf), IF last THEN 1 ELSE 0>> \o idBuf \o chunk

\* sendChunk on the bytes: the frame is sent with the inputs it was built
\* from, or writeUInt8 throws and the async 'data' handler rejects
OnChunkBytes(r, n, m, fileSize) ==
    /\ alive
    /\ Len(frames[r]) < MaxFrames
    /\ LET idBuf == IdBuf(n)
           chunk == ChunkBuf(m)
           last == IsLastChunk(xfer[r].sentBytes, Len(chunk), fileSize)
       IN
       IF HeaderFits(idBuf)
       THEN /\ frames' = [frames EXCEPT ![r] =
                  Append(@, [bytes |-> FrameBytes(idBuf, last, chunk),
                             sid |-> idBuf, last |-> last, payload |-> chunk])]
            /\ xfer' = [xfer EXCEPT ![r].sentBytes = @ + Len(chunk)]
            /\ alive' = alive
       ELSE /\ alive' \in BOOLEAN
            /\ UNCHANGED <<frames, xfer>>
    /\ UNCHANGED <<peerConnections, peer, transferSessions, bufferedAmount, nreq,
                   control, events, signal>>

\* handleFlowControl returns at once: bufferedAmount <= maxBufferThreshold
BufferBelowThreshold(b) == b <= maxBufferThreshold

\* mutant: the wait loop tests the pause threshold instead of CHUNK_SIZE
BufferDrained_AtThreshold(b) == ~(b > maxBufferThreshold)

\* the wait loop of handleFlowControl goes on while bufferedAmount > CHUNK_SIZE
BufferDrained(b) == ~(b > CHUNK_SIZE)

\* timeoutDuration = min(maxTimeoutDuration, max(minTimeoutDuration,
\* bufferedAmount / 1024)); elapsed is a whole number of ms, so
\* elapsed > timeoutDuration is decided by the integer part
TimeoutDuration(b) == Min(10000, Max(1000, b \div 1024))

\* JSON.stringify(cancelMessage).length in sendCancelMessage
CancelMessageLen(sid, f) ==
    Len("{\"type\":\"CANCELED\",\"session_id\":\"\",\"fragment_id\":\"\",")
    + Len("\"error\":\"Node memory low, canceling transfer\"}")
    + Len(sid) + Len(f)

\* cleanupTransferSession(peerData, sessionId), the stream: the session found
\* under sessionId has its file stream destroyed
CleanupTransferStream(xf, p, sid) ==
    LET q == transferSessions[p][sid] IN
    IF q = 0 THEN xf ELSE [xf EXCEPT ![q].stream = Destroyed(@)]

\* cleanupTransferSession(peerData, sessionId), the map: the entry is deleted
CleanupTransferEntry(ts, p, sid) == [ts EXCEPT ![p][sid] = 0]

\* mutant: the handlers do not look at transferSession.canceled
IsCanceled_Ignored(x) == FALSE

\* the handlers below check transferSession.canceled before they act
IsCanceled(x) == x.canceled

\* cancelTransfer acts on a session that is in the map and in progress
CanCancel(q) == q # 0 /\ xfer[q].status = "in-progress"

\* dataChannel.send(...) of wrtc throws InvalidStateError unless readyState is open
CanSend(p) == peer[p].dataChannel = "open"

\* sendChunk, called with the chunk [off, off+len) of request r; xf holds the
\* writes the caller made before.  A send that throws rejects the promise of the
\* async 'data' handler, which nobody handles: Node then ends the process or
\* only reports the rejection, by its --unhandled-rejections mode.
SendChunk(xf, r, off, len) ==
    LET x == xf[r] IN
    IF CanSend(x.peer)
    THEN /\ frames' = [frames EXCEPT ![r] =
               Append(@, Frame(x.sid, IsLastChunk(x.sentBytes, len, x.totalBytes),
                               off, len))]
         /\ bufferedAmount' = [bufferedAmount EXCEPT ![x.peer] =
               @ + HeaderSize(x.sid) + len]
         /\ xfer' = [xf EXCEPT ![r].sentBytes = @ + len]
         /\ alive' = alive
    ELSE /\ xfer' = xf
         /\ alive' \in BOOLEAN
         /\ UNCHANGED <<frames, bufferedAmount>>

\* the message built by sendCancelMessage
CancelMessage(sid, f) ==
    [type |-> "CANCELED", session_id |-> sid, fragment_id |-> f,
     error |-> "Node memory low, canceling transfer"]

\* dataChannel.onmessage is dispatched for a message the channel received
\* while it was open; readyState, read when the handler runs, may be closed
\* by then
MessageDispatched(p) == peer[p].dataChannel \in {"open", "closed"}

\* mutant: the channel gate is evaluated before the fragment gate
FirstFailingGate_ChannelFirst(f, readyState) ==
    CASE readyState # "open" -> "DATA_CHANNEL_CLOSED"
      [] ~FragmentExists(f) -> "FILE_NOT_FOUND"
      [] OTHER -> "none"

\* the two synchronous gates of startTransfer, in the order of the code
FirstFailingGate(f, readyState) ==
    CASE ~FragmentExists(f) -> "FILE_NOT_FOUND"
      [] readyState # "open" -> "DATA_CHANNEL_CLOSED"
      [] OTHER -> "none"

\* dataChannel.onmessage with a READY_NODE message: startTransfer up to the
\* await of checkSystemResources
OnReadyNode(p, sid, f) ==
    /\ alive
    /\ MessageDispatched(p)
    /\ nreq < MaxRequests
    /\ LET r == nreq + 1 IN
       /\ nreq' = r
       /\ peer' = UpdateLastActivity(peer, p)
       /\ IF FirstFailingGate(f, peer[p].dataChannel) # "none"
          THEN /\ events' = [events EXCEPT ![r] =
                     <<"STARTING", FirstFailingGate(f, peer[p].dataChannel)>>]
               /\ xfer' = [xfer EXCEPT ![r] =
                     [NoXfer EXCEPT !.phase = "dropped", !.peer = p,
                                    !.sid = sid, !.frag = f]]
          ELSE /\ events' = [events EXCEPT ![r] = <<"STARTING">>]
               /\ xfer' = [xfer EXCEPT ![r] =
                     [NoXfer EXCEPT !.phase = "probing", !.peer = p,
                                    !.sid = sid, !.frag = f,
                                    !.totalBytes = FileSize(f)]]
    /\ UNCHANGED <<alive, peerConnections, transferSessions, bufferedAmount,
                   frames, control>>
    /\ UNCHANGED signal

\* the transfers map of a peer that is made anew by each request
RegisterSession_NewMap(ts, p, sid, r) ==
    [ts EXCEPT ![p] = [s \in Sessions |-> IF s = sid THEN r ELSE 0]]

\* peerData.transferSessions.set(message.session_id, transferSession): the
\* map is made only when the peer has none, an entry under the same
\* session_id is replaced
RegisterSession(ts, p, sid, r) ==
    [ts EXCEPT ![p][sid] = r]

\* startTransfer after si.mem() returned, with memoryPercentage < 15 or not:
\* the resource gate, then the registration and streamFile
OnProbeReturn(r, lowMemory) ==
    /\ alive
    /\ xfer[r].phase = "probing"
    /\ LET x == xfer[r]
           p == x.peer
       IN
       IF lowMemory \/ bufferedAmount[p] > HighBufferAmount
       THEN IF CanSend(p)
            THEN /\ control' = [control EXCEPT ![r] =
                       Append(@, CancelMessage(x.sid, x.frag))]
                 /\ bufferedAmount' = [bufferedAmount EXCEPT ![p] =
                       @ + CancelMessageLen(x.sid, x.frag)]
                 /\ events' = [events EXCEPT ![r] = Append(@, "LOW_MEMORY")]
                 /\ xfer' = [xfer EXCEPT ![r].phase = "dropped"]
                 /\ UNCHANGED <<alive, transferSessions>>
            ELSE /\ xfer' = [xfer EXCEPT ![r].phase = "dropped"]
                 /\ alive' \in BOOLEAN
                 /\ UNCHANGED <<control, bufferedAmount, events, transferSessions>>
       ELSE /\ events' = [events EXCEPT ![r] = Append(@, "IN_PROGRESS")]
            /\ transferSessions' = RegisterSession(transferSessions, p, x.sid, r)
            /\ xfer' = [xfer EXCEPT ![r].phase = "streaming",
                                    ![r].status = "in-progress",
                                    ![r].sentBytes = 0,
                                    ![r].stream = "flowing",
                                    ![r].reportId = TRUE]
            /\ UNCHANGED <<alive, control, bufferedAmount>>
    /\ UNCHANGED <<peerConnections, peer, nreq, frames>>
    /\ UNCHANGED signal

\* fileStream.on('data') for the next chunk of the file
OnData(r) ==
    /\ alive
    /\ xfer[r].stream = "flowing"
    /\ xfer[r].pc = "idle"
    /\ xfer[r].pos < xfer[r].totalBytes
    /\ LET x == xfer[r]
           off == x.pos
           len == Min(CHUNK_SIZE, x.totalBytes - x.pos)
           read == [xfer EXCEPT ![r].pos = off + len]
       IN
       IF IsCanceled(x)
       THEN /\ xfer' = read
            /\ UNCHANGED <<alive, frames, bufferedAmount>>
       ELSE IF BufferBelowThreshold(bufferedAmount[x.peer])
       THEN SendChunk(read, r, off, len)
       ELSE /\ xfer' = [read EXCEPT ![r].stream = "paused",
                                    ![r].pc = "waiting",
                                    ![r].chunkOff = off,
                                    ![r].chunkLen = len,
                                    ![r].timeoutDuration =
                                        TimeoutDuration(bufferedAmount[x.peer])]
            /\ UNCHANGED <<alive, frames, bufferedAmount>>
    /\ UNCHANGED <<peerConnections, peer, transferSessions, nreq, control, events>>
    /\ UNCHANGED signal

\* the wait loop of handleFlowControl finds the buffer drained: resume, return
\* true, and the 'data' handler goes on to sendChunk
OnPollDrained(r) ==
    /\ alive
    /\ xfer[r].pc = "waiting"
    /\ BufferDrained(bufferedAmount[xfer[r].peer])
    /\ SendChunk([xfer EXCEPT ![r].pc = "idle",
                              ![r].stream = IF @ = "paused" THEN "flowing" ELSE @],
                 r, xfer[r].chunkOff, xfer[r].chunkLen)
    /\ UNCHANGED <<peerConnections, peer, transferSessions, nreq, control, events>>
    /\ UNCHANGED signal

\* the wait loop of handleFlowControl finds the buffer still above CHUNK_SIZE
\* and checkTimeout finds elapsed > timeoutDuration
OnPollTimeout(r) ==
    /\ alive
    /\ xfer[r].pc = "waiting"
    /\ ~BufferDrained(bufferedAmount[xfer[r].peer])
    /\ LET x == xfer[r]
           out == [xfer EXCEPT ![r].pc = "idle", ![r].reportId = FALSE]
       IN
       IF IsCanceled(x)
       THEN /\ xfer' = out
            /\ UNCHANGED transferSessions
       ELSE /\ xfer' = CleanupTransferStream(
                          [out EXCEPT ![r].canceled = TRUE,
                                      ![r].status = "failed",
                                      ![r].error = "Transfer throttled too long"],
                          x.peer, x.sid)
            /\ transferSessions' = CleanupTransferEntry(transferSessions, x.peer, x.sid)
    /\ UNCHANGED <<alive, peerConnections, peer, bufferedAmount, nreq, frames,
                   control, events>>
    /\ UNCHANGED signal

\* fileStream.once('end') -> handleTransferComplete
OnEnd(r) ==
    /\ alive
    /\ xfer[r].stream = "flowing"
    /\ xfer[r].pc = "idle"
    /\ xfer[r].pos = xfer[r].totalBytes
    /\ LET x == xfer[r]
           out == [xfer EXCEPT ![r].stream = "ended", ![r].reportId = FALSE]
       IN
       IF IsCanceled(x)
       THEN /\ xfer' = out
            /\ UNCHANGED <<transferSessions, events>>
       ELSE /\ xfer' = CleanupTransferStream(
                          [out EXCEPT ![r].status = "completed"], x.peer, x.sid)
            /\ transferSessions' = CleanupTransferEntry(transferSessions, x.peer, x.sid)
            /\ events' = [events EXCEPT ![r] = Append(@, "COMPLETED")]
    /\ UNCHANGED <<alive, peerConnections, peer, bufferedAmount, nreq, frames,
                   control>>
    /\ UNCHANGED signal

\* fileStream.on('error') -> handleTransferError: a read of the file failed
OnError(r) ==
    /\ alive
    /\ xfer[r].stream \in {"flowing", "paused"}
    /\ LET x == xfer[r]
           out == [xfer EXCEPT ![r].stream = "destroyed", ![r].reportId = FALSE]
       IN
       IF IsCanceled(x)
       THEN /\ xfer' = out
            /\ UNCHANGED <<transferSessions, events>>
       ELSE /\ xfer' = CleanupTransferStream(
                          [out EXCEPT ![r].status = "failed",
                                      ![r].error = "read error"], x.peer, x.sid)
            /\ transferSessions' = CleanupTransferEntry(transferSessions, x.peer, x.sid)
            /\ events' = [events EXCEPT ![r] = Append(@, "FAILED")]
    /\ UNCHANGED <<alive, peerConnections, peer, bufferedAmount, nreq, frames,
                   control>>
    /\ UNCHANGED signal

\* dataChannel.onmessage with a CANCELED message -> cancelTransfer
OnCanceled(p, sid) ==
    /\ alive
    /\ MessageDispatched(p)
    /\ peer' = UpdateLastActivity(peer, p)
    /\ LET q == transferSessions[p][sid] IN
       IF CanCancel(q)
       THEN /\ xfer' = CleanupTransferStream(
                          [xfer EXCEPT ![q].canceled = TRUE,
                                       ![q].status = "canceled"], p, sid)
            /\ transferSessions' = CleanupTransferEntry(transferSessions, p, sid)
            /\ events' = [events EXCEPT ![q] = Append(@, "CANCELED")]
       ELSE UNCHANGED <<xfer, transferSessions, events>>
    /\ UNCHANGED <<alive, peerConnections, bufferedAmount, nreq, frames, control>>
    /\ UNCHANGED signal

(* ------------------- signaling, the clock (SessionSpec) ---------------- *)

\* the object that the next createPeerConnection builds
Fresh(c) == ~peer[c].created /\ (c = "p2" => peer["p1"].created)

\* peerData as createPeerConnection returns it
NewPeer ==
    [NoPeer EXCEPT !.created = TRUE, !.connection = "new", !.statsInterval = TRUE]

\* socket.on(OFFER) -> handleOffer up to its first await: createPeerConnection
\* for the source id, whether the id is in the map or not
HandleOffer(c) ==
    /\ alive
    /\ Fresh(c)
    /\ peer' = [peer EXCEPT ![c] = [NewPeer EXCEPT !.sdp = "answering"]]
    /\ peerConnections' = CleanupMap(peerConnections, c) \cup {c}
    /\ UNCHANGED <<alive, transferSessions, bufferedAmount, nreq, xfer, frames,
                   control, events, signal>>

\* handleOffer after setRemoteDescription, createAnswer, setLocalDescription:
\* the answer is emitted, or one of them threw (also: the connection was
\* closed meanwhile) and the catch block calls cleanup for the id
OnOfferApplied(c, ok) ==
    /\ alive
    /\ peer[c].sdp = "answering"
    /\ ok => peer[c].connection # "closed"
    /\ IF ok
       THEN /\ peer' = [peer EXCEPT ![c].sdp = "answered"]
            /\ signal' = [signal EXCEPT !.answers = @ + 1]
            /\ UNCHANGED <<peerConnections, transferSessions, xfer>>
       ELSE /\ peer' = CleanupPeer([peer EXCEPT ![c].sdp = "failed"], c)
            /\ xfer' = CleanupStreams(xfer, c)
            /\ transferSessions' = CleanupSessions(transferSessions, c)
            /\ peerConnections' = CleanupMap(peerConnections, c)
            /\ UNCHANGED signal
    /\ UNCHANGED <<alive, bufferedAmount, nreq, frames, control, events>>

\* mutant: connectToPeer does not look for an existing session
HasPeerConnection_Never(c) == FALSE

\* this.peerConnections.has(targetId)
HasPeerConnection(c) == \E q \in Conns : InMapFor(q, c)

\* connectToPeer(targetId) up to its first await; c is the object it builds
\* when the id is not in the map
ConnectToPeer(c) ==
    /\ alive
    /\ signal.connects < MaxConnects
    /\ Fresh(c)
    /\ signal' = [signal EXCEPT !.connects = @ + 1]
    /\ IF HasPeerConnection(c)
       THEN UNCHANGED <<peer, peerConnections>>
       ELSE /\ peer' = [peer EXCEPT ![c] = [NewPeer EXCEPT !.sdp = "offering"]]
            /\ peerConnections' = CleanupMap(peerConnections, c) \cup {c}
    /\ UNCHANGED <<alive, transferSessions, bufferedAmount, nreq, xfer, frames,
                   control, events>>

\* connectToPeer after createOffer and setLocalDescription: the offer is
\* emitted, or one of them threw and the catch block calls cleanup for the id
OnOfferCreated(c, ok) ==
    /\ alive
    /\ peer[c].sdp = "offering"
    /\ ok => peer[c].connection # "closed"
    /\ IF ok
       THEN /\ peer' = [peer EXCEPT ![c].sdp = "offered"]
            /\ signal' = [signal EXCEPT !.offers = @ + 1]
            /\ UNCHANGED <<peerConnections, transferSessions, xfer>>
       ELSE /\ peer' = CleanupPeer([peer EXCEPT ![c].sdp = "failed"], c)
            /\ xfer' = CleanupStreams(xfer, c)
            /\ transferSessions' = CleanupSessions(transferSessions, c)
            /\ peerConnections' = CleanupMap(peerConnections, c)
            /\ UNCHANGED signal
    /\ UNCHANGED <<alive, bufferedAmount, nreq, frames, control, events>>

\* socket.on(ANSWER) -> handleAnswer up to its await: the session found in the
\* map under the source id gets the remote answer to the offer it sent
HandleAnswer(c) ==
    /\ alive
    /\ c \in peerConnections
    /\ peer[c].sdp = "offered"
    /\ peer[c].answer = "none"
    /\ peer' = [peer EXCEPT ![c].answer = "pending"]
    /\ UNCHANGED <<alive, peerConnections, transferSessions, bufferedAmount, nreq,
                   xfer, frames, control, events, signal>>

\* handleAnswer after setRemoteDescription: updateLastActivity for the id, or
\* it threw and the catch block calls cleanup for the id
OnAnswerApplied(c, ok) ==
    /\ alive
    /\ peer[c].answer = "pending"
    /\ ok => peer[c].connection # "closed"
    /\ IF ok
       THEN /\ peer' = UpdateLastActivity([peer EXCEPT ![c].answer = "applied"], c)
            /\ UNCHANGED <<peerConnections, transferSessions, xfer>>
       ELSE /\ peer' = CleanupPeer([peer EXCEPT ![c].answer = "failed"], c)
            /\ xfer' = CleanupStreams(xfer, c)
            /\ transferSessions' = CleanupSessions(transferSessions, c)
            /\ peerConnections' = CleanupMap(peerConnections, c)
    /\ UNCHANGED <<alive, bufferedAmount, nreq, frames, control, events, signal>>

\* socket.on(ICE_CANDIDATE) -> handleIceCandidate up to its await, for a
\* candidate that is not empty: the session found in the map under the source id
HandleIceCandidate(c) ==
    /\ alive
    /\ c \in peerConnections
    /\ peer[c].ice = "none"
    /\ peer' = [peer EXCEPT ![c].ice = "pending"]
    /\ UNCHANGED <<alive, peerConnections, transferSessions, bufferedAmount, nreq,
                   xfer, frames, control, events, signal>>

\* handleIceCandidate after addIceCandidate: updateLastActivity for the id, or
\* it threw and the catch block logs the error
OnIceCandidateAdded(c, ok) ==
    /\ alive
    /\ peer[c].ice = "pending"
    /\ ok => peer[c].connection # "closed"
    /\ IF ok
       THEN peer' = UpdateLastActivity([peer EXCEPT ![c].ice = "added"], c)
       ELSE peer' = [peer EXCEPT ![c].ice = "failed"]
    /\ UNCHANGED <<alive, peerConnections, transferSessions, bufferedAmount, nreq,
                   xfer, frames, control, events, signal>>

\* cleanup(clientId) called from outside for a peer that is in the map
DisconnectFromPeer(c) ==
    /\ alive
    /\ c \in peerConnections
    /\ peer' = CleanupPeer(peer, c)
    /\ xfer' = CleanupStreams(xfer, c)
    /\ transferSessions' = CleanupSessions(transferSessions, c)
    /\ peerConnections' = CleanupMap(peerConnections, c)
    /\ UNCHANGED <<alive, bufferedAmount, nreq, frames, control, events, signal>>

\* the callback of the inactivity timer is due: the timer was armed when
\* lastActivity was written, and INACTIVITY_TIMEOUT is two check periods
TimerDue(c) ==
    peer[c].timeoutId /\ peer[c].armed * CheckInterval >= INACTIVITY_TIMEOUT

\* the inactivity timer fires, INACTIVITY_TIMEOUT after it was armed
OnInactivityExpired(p) ==
    /\ TimerDue(p)
    /\ OnInactivityTimeout(p)

\* mutant: the checker compares with twice the timeout
Expired_Late(age) == age * CheckInterval > 2 * INACTIVITY_TIMEOUT

\* the test of the inactivity checker, now - lastActivity > INACTIVITY_TIMEOUT,
\* at its age-th run after lastActivity was written
Expired(age) == age * CheckInterval > INACTIVITY_TIMEOUT

\* a transfer of the peer is registered and in progress
Busy(c) ==
    \E r \in Slots :
        /\ xfer[r].peer = c
        /\ xfer[r].status = "in-progress"
        /\ transferSessions[c][xfer[r].sid] = r

\* one period of CheckInterval goes by and the callback of
\* startInactivityChecker runs; the timers that are due in the period that
\* ends run before it, those of the next period become due
OnInactivityCheck ==
    /\ alive
    /\ \A c \in Conns : ~TimerDue(c)
    /\ \A r \in Slots : ~(xfer[r].reportId /\ xfer[r].reportDue)
    \* si.mem() answers well within a period
    /\ \A r \in Slots : xfer[r].phase # "probing"
    /\ \E c \in Conns : peer[c].created /\ (c \in peerConnections \/ peer[c].timeoutId)
    /\ LET aged == [c \in Conns |->
                      IF c \in peerConnections \/ peer[c].timeoutId
                      THEN [peer[c] EXCEPT
                              !.age = @ + 1,
                              !.armed = IF peer[c].timeoutId THEN @ + 1 ELSE @,
                              !.silence = IF Busy(c) THEN 0 ELSE Min(@ + 1, 3),
                              !.quiet = Min(@ + 1, 3)]
                      ELSE peer[c]]
           stale == {c \in peerConnections : Expired(aged[c].age)}
           due == [r \in Slots |-> [xfer[r] EXCEPT !.reportDue = xfer[r].reportId]]
       IN
       IF stale = {}
       THEN /\ peer' = aged
            /\ xfer' = due
            /\ UNCHANGED <<peerConnections, transferSessions>>
       ELSE \E c \in stale :
            /\ peer' = CleanupPeer(aged, c)
            /\ xfer' = CleanupStreams(due, c)
            /\ transferSessions' = CleanupSessions(transferSessions, c)
            /\ peerConnections' = CleanupMap(peerConnections, c)
    /\ UNCHANGED <<alive, bufferedAmount, nreq, frames, control, events, signal>>

\* mutant: the ticker of streamFile fires without refreshing the activity
OnReportProgress_NoRefresh(r) ==
    /\ alive
    /\ xfer[r].reportId
    /\ xfer[r].reportDue
    /\ xfer' = [xfer EXCEPT ![r].reportDue = FALSE]
    /\ UNCHANGED <<alive, peerConnections, peer, transferSessions, bufferedAmount,
                   nreq, frames, control, events, signal>>

\* the callback of the reportId ticker of streamFile: onActivityUpdate(clientId)
OnReportProgress(r) ==
    /\ alive
    /\ xfer[r].reportId
    /\ xfer[r].reportDue
    /\ xfer' = [xfer EXCEPT ![r].reportDue = FALSE]
    /\ peer' = [q \in Conns |->
                  [UpdateLastActivity(peer, xfer[r].peer)[q]
                     EXCEPT !.silence = peer[q].silence,
                            !.quiet = peer[q].quiet]]
    /\ UNCHANGED <<alive, peerConnections, transferSessions, bufferedAmount,
                   nreq, frames, control, events, signal>>

\* dataChannel.onmessage with READY_NODE, for the requests of TimedSpec: a
\* short fragment or one that is longer than the buffer threshold
OnSessionRequest(p, sid, f) ==
    /\ nreq < MaxSessionRequests
    /\ OnReadyNode(p, sid, f)

(* ---------------------------- specification ---------------------------- *)

Next ==
    \/ \E p \in Peers : CreatePeerConnection(p)
    \/ \E p \in Peers : OnDataChannel(p)
    \/ \E p \in Peers : OnOpen(p)
    \/ \E p \in Peers : OnClose(p)
    \/ \E p \in Peers, st \in {"connected", "failed", "disconnected", "closed"} :
          OnConnectionStateChange(p, st)
    \/ \E p \in Peers : OnInactivityTimeout(p)
    \/ \E p \in Peers : OnClosedEvent(p)
    \/ \E p \in Peers : Drain(p)
    \/ \E p \in Peers, sid \in Sessions, f \in Fragments : OnReadyNode(p, sid, f)
    \/ \E r \in Slots, lowMemory \in BOOLEAN : OnProbeReturn(r, lowMemory)
    \/ \E r \in Slots : OnData(r)
    \/ \E r \in Slots : OnPollDrained(r)
    \/ \E r \in Slots : OnPollTimeout(r)
    \/ \E r \in Slots : OnEnd(r)
    \/ \E r \in Slots : OnError(r)
    \/ \E p \in Peers, sid \in Sessions : OnCanceled(p, sid)

Spec == Init /\ [][Next]_vars

\* the peer sessions of one remote id with the clock: offers and connects,
\* the channel, the connection states, the timers and the inactivity checker
SessionNext ==
    \/ \E c \in Conns : HandleOffer(c)
    \/ \E c \in Conns, ok \in BOOLEAN : OnOfferApplied(c, ok)
    \/ \E c \in Conns : ConnectToPeer(c)
    \/ \E c \in Conns, ok \in BOOLEAN : OnOfferCreated(c, ok)
    \/ \E c \in Conns : DisconnectFromPeer(c)
    \/ \E p \in Conns : OnDataChannel(p)
    \/ \E p \in Conns : OnOpen(p)
    \/ \E p \in Conns : OnClose(p)
    \/ \E p \in Conns, st \in {"connected", "failed", "disconnected", "closed"} :
          OnConnectionStateChange(p, st)
    \/ \E p \in Conns : OnInactivityExpired(p)
    \/ \E p \in Conns : OnClosedEvent(p)
    \/ OnInactivityCheck

SessionSpec == Init /\ [][SessionNext]_vars

\* sendChunk as a function of the session id, the chunk and the file size,
\* applied to the chunks of one transfer
FrameNext ==
    \E n \in IdLengths, m \in 0..MaxPayload,
       fileSize \in 0..(MaxFrames * MaxPayload) :
        OnChunkBytes(1, n, m, fileSize)

FrameSpec == Init /\ [][FrameNext]_vars

(* ----------------------- CommandSocketController ----------------------- *)

\* the fields of signal for the commands: fragmentMap is the fragment index
\* of SettingUtils, disk the file <remote path>/<id> (none, partial while a
\* write stream writes it, file), urls, pos, stream the download command that
\* is handled and the await it is at, results the downloadResults of that
\* command, verified the COMMAND_VERIFY messages emitted, command the handler
\* that ran last

\* createFragmentMap() at startup: every regular file of the remote directory
\* is indexed under its filename
CreateFragmentMap(files) ==
    /\ alive
    /\ ~signal.started
    /\ signal' = [signal EXCEPT !.started = TRUE,
                                !.disk = [f \in FragIds |->
                                            IF f \in files THEN "file" ELSE "none"],
                                !.fragmentMap = files,
                                !.command = "startup"]
    /\ UNCHANGED <<alive, peerConnections, peer, transferSessions, bufferedAmount,
                   nreq, xfer, frames, control, events>>

\* handleDelete(fragmentIds): every id that is in the index is removed from
\* it and its file is unlinked; unlink is issued by the handler and is over
\* before the next event
HandleDelete(ids) ==
    /\ alive
    /\ signal.started
    /\ signal' = [signal EXCEPT
                     !.fragmentMap = @ \ ids,
                     !.disk = [f \in FragIds |->
                                 IF f \in ids /\ f \in signal.fragmentMap
                                 THEN "none" ELSE signal.disk[f]],
                     !.command = "delete"]
    /\ UNCHANGED <<alive, peerConnections, peer, transferSessions, bufferedAmount,
                   nreq, xfer, frames, control, events>>

\* handleDownload(urls) up to its first await; a URL is named by the fragment
\* id its response carries
HandleDownload(urls) ==
    /\ alive
    /\ signal.started
    /\ signal.urls = <<>>
    /\ signal.batches < MaxBatches
    /\ signal' = [signal EXCEPT !.urls = urls, !.pos = 1, !.stream = "head",
                                !.batches = @ + 1, !.results = <<>>,
                                !.command = "download"]
    /\ UNCHANGED <<alive, peerConnections, peer, transferSessions, bufferedAmount,
                   nreq, xfer, frames, control, events>>

\* the loop of handleDownload after head and findMostFreePath for the URL at
\* pos: DownloadUtils.stream opens the write stream on <path>/<id>, or head
\* threw, a header is missing or no path has room and the URL is skipped
OnHead(ok) ==
    /\ alive
    /\ signal.stream = "head"
    /\ signal.pos <= Len(signal.urls)
    /\ LET id == signal.urls[signal.pos] IN
       signal' = IF ok
                 THEN [signal EXCEPT !.stream = "piping",
                                     !.disk[id] = "partial",
                                     !.command = "head"]
                 ELSE [signal EXCEPT !.pos = @ + 1, !.command = "skipped"]
    /\ UNCHANGED <<alive, peerConnections, peer, transferSessions, bufferedAmount,
                   nreq, xfer, frames, control, events>>

\* the file the write stream leaves when the pipeline ends well: a file that
\* was unlinked meanwhile stays unlinked
Written(state) == IF state = "partial" THEN "file" ELSE state

\* the catch block of DownloadUtils.stream: fs.unlink(destination) is called
\* on the directory, fails and is ignored, so the file is left as it is
UnlinkOnFailure(state) == state

\* handleDownload after DownloadUtils.stream: the pipeline ended and the id
\* is added to the index and to the results (hashFile throws for a file that
\* is gone), or it failed, stream threw and the URL is skipped
OnStreamEnd(ok) ==
    /\ alive
    /\ signal.stream = "piping"
    /\ LET id == signal.urls[signal.pos] IN
       signal' = IF ok
                 THEN [signal EXCEPT
                         !.disk[id] = Written(@),
                         !.fragmentMap = @ \cup {id},
                         !.results = IF signal.disk[id] = "none"
                                     THEN @ ELSE Append(@, id),
                         !.pos = @ + 1, !.stream = "head",
                         !.command = "downloaded"]
                 ELSE [signal EXCEPT
                         !.disk[id] = UnlinkOnFailure(@),
                         !.pos = @ + 1, !.stream = "head",
                         !.command = "failed"]
    /\ UNCHANGED <<alive, peerConnections, peer, transferSessions, bufferedAmount,
                   nreq, xfer, frames, control, events>>

\* handleDownload after the loop: COMMAND_VERIFY with the results
OnVerify ==
    /\ alive
    /\ signal.stream = "head"
    /\ signal.pos > Len(signal.urls)
    /\ signal' = [signal EXCEPT !.urls = <<>>, !.pos = 0, !.stream = "idle",
                                !.verified = Append(@, signal.results),
                                !.command = "verify"]
    /\ UNCHANGED <<alive, peerConnections, peer, transferSessions, bufferedAmount,
                   nreq, xfer, frames, control, events>>

\* the download commands: one or two URLs
UrlLists ==
    {<<f>> : f \in FragIds} \cup {<<f, g>> : f \in FragIds, g \in FragIds}

\* the commands of the signaling server on the fragment store
CommandNext ==
    \/ \E files \in SUBSET FragIds : CreateFragmentMap(files)
    \/ \E ids \in SUBSET FragIds : ids # {} /\ HandleDelete(ids)
    \/ \E urls \in UrlLists : Len(urls) <= MaxUrls /\ HandleDownload(urls)
    \/ \E ok \in BOOLEAN : OnHead(ok)
    \/ \E ok \in BOOLEAN : OnStreamEnd(ok)
    \/ OnVerify

CommandSpec == Init /\ [][CommandNext]_vars

(* --------------------------- SocketController -------------------------- *)

\* the delay of the setTimeout of handleConnectError
ReconnectDelay == 5000

\* the period of the setInterval of activateDeviceUpdates
DeviceUpdateInterval == 5000

\* createConnection(): io(servers[0]) starts to connect; the servers are
\* named by their index in the list
CreateConnection ==
    /\ alive
    /\ signal.socket = "none"
    /\ signal' = [signal EXCEPT !.socket = "opening", !.serverIndex = 0,
                                !.maxServerIndex = NumServers - 1, !.uri = 0,
                                !.contacted = <<0>>, !.event = "create"]
    /\ UNCHANGED <<alive, peerConnections, peer, transferSessions, bufferedAmount,
                   nreq, xfer, frames, control, events>>

\* socket.on('connect') -> handleConnect up to its first await: signUpDevice
\* when the settings hold no identity, signInDevice otherwise
HandleConnect ==
    /\ alive
    /\ signal.socket = "opening"
    /\ signal.signUps + signal.signIns < MaxHandlers
    /\ signal' = [signal EXCEPT !.socket = "open", !.event = "connect",
                                !.signUps = IF signal.appInfo THEN @ ELSE @ + 1,
                                !.signIns = IF signal.appInfo THEN @ + 1 ELSE @]
    /\ UNCHANGED <<alive, peerConnections, peer, transferSessions, bufferedAmount,
                   nreq, xfer, frames, control, events>>

\* handleConnect after signUpDevice: the identity is stored and signInDevice is
\* called, or sign-up failed (no ack within 5 s, or a refusal) and the
\* process exits
OnSignUpAck(ok) ==
    /\ alive
    /\ signal.signUps > 0
    /\ ok => signal.socket = "open"
    /\ IF ok
       THEN /\ signal' = [signal EXCEPT !.signUps = @ - 1, !.signIns = @ + 1,
                                        !.appInfo = TRUE, !.event = "signed-up"]
            /\ alive' = alive
       ELSE /\ signal' = [signal EXCEPT !.signUps = @ - 1, !.event = "exit"]
            /\ alive' = FALSE
    /\ UNCHANGED <<peerConnections, peer, transferSessions, bufferedAmount,
                   nreq, xfer, frames, control, events>>

\* handleConnect after signInDevice: activateDeviceUpdates clears the interval
\* that exists and starts a new one, or sign-in failed and the process exits
OnSignInAck(ok) ==
    /\ alive
    /\ signal.signIns > 0
    /\ ok => signal.socket = "open"
    /\ IF ok
       THEN /\ signal' = [signal EXCEPT !.signIns = @ - 1,
                                        !.updateInterval = DeviceUpdateInterval,
                                        !.event = "signed-in"]
            /\ alive' = alive
       ELSE /\ signal' = [signal EXCEPT !.signIns = @ - 1, !.event = "exit"]
            /\ alive' = FALSE
    /\ UNCHANGED <<peerConnections, peer, transferSessions, bufferedAmount,
                   nreq, xfer, frames, control, events>>

\* the transport of the connected socket closes; the socket.io manager starts
\* to reconnect to the same uri
OnTransportClose ==
    /\ alive
    /\ signal.socket = "open"
    /\ signal' = [signal EXCEPT !.socket = "opening", !.event = "disconnect"]
    /\ UNCHANGED <<alive, peerConnections, peer, transferSessions, bufferedAmount,
                   nreq, xfer, frames, control, events>>

\* mutant: handleConnectError retries the server that failed
HandleConnectError_SameServer ==
    /\ alive
    /\ signal.socket = "opening"
    /\ signal' = [signal EXCEPT !.updateInterval = 0, !.socket = "closed",
                                !.timer = TRUE, !.delay = ReconnectDelay,
                                !.nextServer = signal.serverIndex,
                                !.event = "connect_error"]
    /\ UNCHANGED <<alive, peerConnections, peer, transferSessions, bufferedAmount,
                   nreq, xfer, frames, control, events>>

\* socket.on('connect_error') -> handleConnectError
HandleConnectError ==
    /\ alive
    /\ signal.socket = "opening"
    /\ IF signal.serverIndex < signal.maxServerIndex
       THEN /\ signal' = [signal EXCEPT !.updateInterval = 0,
                                        !.serverIndex = @ + 1,
                                        !.socket = "closed",
                                        !.timer = TRUE,
                                        !.delay = ReconnectDelay,
                                        !.nextServer = signal.serverIndex + 1,
                                        !.event = "connect_error"]
            /\ alive' = alive
       ELSE /\ signal' = [signal EXCEPT !.updateInterval = 0,
                                        !.event = "connect_error"]
            /\ alive' = FALSE
    /\ UNCHANGED <<peerConnections, peer, transferSessions, bufferedAmount,
                   nreq, xfer, frames, control, events>>

\* the callback of the setTimeout of handleConnectError: the uri of the
\* manager is set to the server the handler chose and the socket connects
OnReconnectTimer ==
    /\ alive
    /\ signal.timer
    /\ signal' = [signal EXCEPT !.timer = FALSE, !.uri = signal.nextServer,
                                !.socket = "opening",
                                !.contacted = Append(@, signal.nextServer),
                                !.event = "reconnect"]
    /\ UNCHANGED <<alive, peerConnections, peer, transferSessions, bufferedAmount,
                   nreq, xfer, frames, control, events>>

\* the signaling socket: connects, sign-up and sign-in, transport failures
\* and the failover over the server list
SocketNext ==
    \/ CreateConnection
    \/ HandleConnect
    \/ \E ok \in BOOLEAN : OnSignUpAck(ok)
    \/ \E ok \in BOOLEAN : OnSignInAck(ok)
    \/ OnTransportClose
    \/ HandleConnectError
    \/ OnReconnectTimer

SocketSpec == Init /\ [][SocketNext]_vars

\* the stats of one peer session: the sampling interval, the transport's
\* counter, the connection states and the teardown
StatsNext ==
    \/ \E p \in Peers : CreatePeerConnection(p)
    \/ \E p \in Peers : OnDataChannel(p)
    \/ \E p \in Peers : OnOpen(p)
    \/ \E p \in Peers : OnClose(p)
    \/ \E p \in Peers, n \in 1..MaxBytes : OnTransportSend(p, n)
    \/ \E p \in Peers : OnStatsTick(p)
    \/ \E p \in Peers : OnStatsReport(p)
    \/ \E p \in Peers, st \in {"connected", "failed", "disconnected", "closed"} :
          OnConnectionStateChange(p, st)
    \/ \E p \in Peers : OnInactivityTimeout(p)
    \/ \E p \in Peers : OnClosedEvent(p)

StatsSpec == Init /\ [][StatsNext]_vars

\* the signaling of one peer session with the clock: offer, answer and ICE
\* candidates, the connection states, the timers and the inactivity checker
SignalingNext ==
    \/ \E c \in Peers : HandleOffer(c)
    \/ \E c \in Peers, ok \in BOOLEAN : OnOfferApplied(c, ok)
    \/ \E c \in Peers : ConnectToPeer(c)
    \/ \E c \in Peers, ok \in BOOLEAN : OnOfferCreated(c, ok)
    \/ \E c \in Peers : HandleAnswer(c)
    \/ \E c \in Peers, ok \in BOOLEAN : OnAnswerApplied(c, ok)
    \/ \E c \in Peers : HandleIceCandidate(c)
    \/ \E c \in Peers, ok \in BOOLEAN : OnIceCandidateAdded(c, ok)
    \/ \E p \in Peers : OnDataChannel(p)
    \/ \E p \in Peers : OnOpen(p)
    \/ \E p \in Peers, st \in {"connected", "failed", "disconnected", "closed"} :
          OnConnectionStateChange(p, st)
    \/ \E p \in Peers : OnInactivityExpired(p)
    \/ \E p \in Peers : OnClosedEvent(p)
    \/ OnInactivityCheck

SignalingSpec == Init /\ [][SignalingNext]_vars

\* one peer session with the clock and its transfers: the timers, the
\* inactivity checker and the activity-refresh ticker of a transfer
TimedNext ==
    \/ \E c \in Peers : HandleOffer(c)
    \/ \E c \in Peers, ok \in BOOLEAN : OnOfferApplied(c, ok)
    \/ \E p \in Peers : OnDataChannel(p)
    \/ \E p \in Peers : OnOpen(p)
    \/ \E p \in Peers : OnClose(p)
    \/ \E p \in Peers, st \in {"connected", "failed", "disconnected", "closed"} :
          OnConnectionStateChange(p, st)
    \/ \E p \in Peers : OnInactivityExpired(p)
    \/ \E p \in Peers : OnClosedEvent(p)
    \/ OnInactivityCheck
    \/ \E r \in Slots : OnReportProgress(r)
    \/ \E p \in Peers, sid \in Sessions, f \in {"F1", "F6"} : OnSessionRequest(p, sid, f)
    \/ \E p \in Peers : Drain(p)
    \/ \E r \in Slots : OnPollDrained(r)
    \/ \E r \in Slots : OnPollTimeout(r)
    \/ \E r \in Slots, lowMemory \in BOOLEAN : OnProbeReturn(r, lowMemory)
    \/ \E r \in Slots : OnData(r)
    \/ \E r \in Slots : OnEnd(r)
    \/ \E r \in Slots : OnError(r)
    \/ \E p \in Peers, sid \in Sessions : OnCanceled(p, sid)

TimedSpec == Init /\ [][TimedNext]_vars

(* ------------------------------- claims -------------------------------- *)

Terminal(status) == status \in {"completed", "failed", "canceled"}

TerminalEvents(ev) ==
    Cardinality({i \in 1..Len(ev) : ev[i] \in {"COMPLETED", "FAILED", "CANCELED"}})

\* the handle of the read stream is released
Released(stream) == stream \in {"ended", "destroyed"}

\* request r is registered under its session_id in its peer's transfers map
InMap(r) == transferSessions[xfer[r].peer][xfer[r].sid] = r

\* the bytes of the frames of request r are the first n bytes of its fragment
RECURSIVE PayloadEnd(_, _)
PayloadEnd(fs, i) == IF i = 0 THEN 0 ELSE PayloadEnd(fs, i - 1) + fs[i].len

InFileOrder(fs) == \A i \in 1..Len(fs) : fs[i].off = PayloadEnd(fs, i - 1)

CeilDiv(n, d) == (n + d - 1) \div d

\* C1: once cancelTransfer has canceled a session on a remote CANCELED, no
\* further data frame of that session is put on the channel, wherever the
\* streamer was when the cancel arrived.
C1_NoFrameAfterCancel ==
    [][\A r \in Slots :
          xfer[r].status = "canceled" => frames'[r] = frames[r]]_vars

\* C2: when cleanup(peer) removes the peer, every session that was in its
\* transfers map is marked canceled (flag and status), its read stream is
\* stopped and released, and it sends no frame afterwards.
C2_TeardownCancelsTransfers ==
    [][\A p \in Peers, r \in Slots :
          /\ (p \in peerConnections /\ p \notin peerConnections'
              /\ xfer[r].peer = p /\ InMap(r))
             => (/\ xfer'[r].canceled
                 /\ xfer'[r].status = "canceled"
                 /\ Released(xfer'[r].stream))
          /\ (xfer[r].peer = p /\ xfer[r].phase = "streaming"
              /\ peer[p].created /\ p \notin peerConnections)
             => frames'[r] = frames[r]]_vars

\* C3: a registered session whose streamer has stopped for good (its read
\* stream is closed and no 'data' handler is pending) has reached completed,
\* failed or canceled, its handle is released and its map entry is removed:
\* no path, the teardown of the peer included, leaves it in progress.
C3_StoppedIsTerminal ==
    \A r \in Slots :
        (xfer[r].phase = "streaming" /\ Released(xfer[r].stream)
         /\ xfer[r].pc = "idle")
        => (Terminal(xfer[r].status) /\ ~InMap(r))

\* C4: a terminal status of a session never changes to another value, and at
\* most one of COMPLETED, FAILED, CANCELED is reported for a session.
C4_OneTerminalStatus ==
    [][\A r \in Slots :
          /\ Terminal(xfer[r].status) => xfer'[r].status = xfer[r].status
          /\ TerminalEvents(events'[r]) <= 1]_vars

\* C4 witness: a read error failed the session and reported FAILED while its
\* 'data' handler waited for the buffer, and the wait then ran into its
\* deadline: two terminal paths acted on one session.
C4_Witness ==
    \E r \in Slots :
        /\ xfer[r].status = "failed"
        /\ xfer[r].error = "Transfer throttled too long"
        /\ TerminalEvents(events[r]) = 1

\* C5: 0 <= sentBytes <= totalBytes for every session, and a completed
\* session has sentBytes = totalBytes.
C5_SentBytesBounds ==
    \A r \in Slots :
        /\ 0 <= xfer[r].sentBytes
        /\ xfer[r].sentBytes <= xfer[r].totalBytes
        /\ xfer[r].status = "completed" => xfer[r].sentBytes = xfer[r].totalBytes

\* C6: the frames of a session carry its session_id, their payloads in send
\* order are a prefix of the fragment, and they are the whole fragment once
\* the session is completed.
C6_FramesInFileOrder ==
    \A r \in Slots :
        /\ \A i \in 1..Len(frames[r]) : frames[r][i].sid = xfer[r].sid
        /\ InFileOrder(frames[r])
        /\ PayloadEnd(frames[r], Len(frames[r])) <= xfer[r].totalBytes
        /\ xfer[r].status = "completed"
           => PayloadEnd(frames[r], Len(frames[r])) = xfer[r].totalBytes

\* C7: a completed session of a fragment of n bytes (0 included) has sent
\* ceil(n / CHUNK_SIZE) frames, exactly one of them with the last-chunk flag,
\* and that one is its last frame.
C7_LastChunkFlag ==
    \A r \in Slots :
        xfer[r].status = "completed"
        => LET fs == frames[r] IN
           /\ Len(fs) = CeilDiv(xfer[r].totalBytes, CHUNK_SIZE)
           /\ Cardinality({i \in 1..Len(fs) : fs[i].last = 1}) = 1
           /\ Len(fs) > 0 /\ fs[Len(fs)].last = 1

\* C8: a chunk read while bufferedAmount > 5 x CHUNK_SIZE is not sent and the
\* reads are paused; while the handler waits the session sends nothing and
\* its reads stay paused until bufferedAmount <= CHUNK_SIZE; after the
\* deadline ran out the session sends nothing more.
C8_BackPressure ==
    [][\A r \in Slots :
          LET b == bufferedAmount[xfer[r].peer] IN
          /\ xfer[r].pc = "waiting" => xfer[r].stream # "flowing"
          /\ frames'[r] # frames[r]
             => IF xfer[r].pc = "waiting"
                THEN b <= CHUNK_SIZE
                ELSE b <= 5 * CHUNK_SIZE
          /\ (xfer[r].stream = "paused" /\ xfer'[r].stream = "flowing")
             => b <= CHUNK_SIZE
          /\ (xfer[r].stream = "flowing" /\ xfer'[r].pos # xfer[r].pos
              /\ ~xfer[r].canceled /\ b > 5 * CHUNK_SIZE)
             => (xfer'[r].stream = "paused" /\ xfer'[r].pc = "waiting")
          /\ xfer[r].error = "Transfer throttled too long"
             => frames'[r] = frames[r]]_vars

\* C8 witness: a session that waited for the buffer, sent the chunk it held
\* after the drain and is reading on.
C8_Witness ==
    \E r \in Slots :
        /\ xfer[r].timeoutDuration > 0
        /\ xfer[r].pc = "idle"
        /\ xfer[r].stream = "flowing"
        /\ xfer[r].pos < xfer[r].totalBytes
        /\ \E i \in 1..Len(frames[r]) : frames[r][i].off = xfer[r].chunkOff

\* C9: a session that the back-pressure deadline ended is failed with the
\* error "Transfer throttled too long", FAILED is reported for it, and its
\* stream and map entry are cleaned up.
C9_ThrottleTimeoutReported ==
    \A r \in Slots :
        xfer[r].error = "Transfer throttled too long"
        => (/\ xfer[r].status = "failed"
            /\ \E i \in 1..Len(events[r]) : events[r][i] = "FAILED")

\* C10: a step in which a session fails or is canceled leaves the peer's map
\* entry, its channel and connection and every other session of the peer as
\* they were.
C10_TransferErrorsAreSessionScoped ==
    [][\A r \in Slots :
          (xfer[r].status = "in-progress"
           /\ xfer'[r].status \in {"failed", "canceled"})
          => (/\ peer' = peer
              /\ peerConnections' = peerConnections
              /\ \A q \in Slots \ {r} :
                    /\ xfer'[q] = xfer[q]
                    /\ InMap(q) => InMap(q)')]_vars

\* the events of a request hold status e
Reported(ev, e) == \E i \in 1..Len(ev) : ev[i] = e

\* a pre-flight gate refused the request
Refused(ev) ==
    \/ Reported(ev, "FILE_NOT_FOUND")
    \/ Reported(ev, "DATA_CHANNEL_CLOSED")
    \/ Reported(ev, "LOW_MEMORY")

\* request r has a TransferSession, in some transfers map or not
Registered(r) ==
    \/ xfer[r].status # "none"
    \/ \E p \in Peers, s \in Sessions : transferSessions[p][s] = r

\* C11: the step that receives a READY_NODE reports FILE_NOT_FOUND for a
\* fragment that is not in the index, whatever the state of the channel, and
\* DATA_CHANNEL_CLOSED for a known fragment on a channel that is not open; a
\* request that a gate refused has no TransferSession, no IN_PROGRESS and no
\* data frame.
C11_PreflightGates ==
    [][\A r \in Slots :
          /\ (nreq = r - 1 /\ nreq' = r)
             => LET f == xfer'[r].frag
                    readyState == peer[xfer'[r].peer].dataChannel
                IN
                /\ ~FragmentExists(f)
                   => events'[r] = <<"STARTING", "FILE_NOT_FOUND">>
                /\ (FragmentExists(f) /\ readyState # "open")
                   => events'[r] = <<"STARTING", "DATA_CHANNEL_CLOSED">>
                /\ (FragmentExists(f) /\ readyState = "open")
                   => events'[r] = <<"STARTING">>
          /\ Refused(events'[r])
             => (/\ ~Registered(r)'
                 /\ ~Reported(events'[r], "IN_PROGRESS")
                 /\ frames'[r] = <<>>)]_vars

\* C11 witness: the first request found the channel closed, and the second,
\* on the same closed channel, named a fragment that is not in the index.
C11_Witness ==
    /\ nreq = 2
    /\ events[1] = <<"STARTING", "DATA_CHANNEL_CLOSED">>
    /\ xfer[2].peer = xfer[1].peer
    /\ ~FragmentExists(xfer[2].frag)
    /\ events[2] = <<"STARTING", "FILE_NOT_FOUND">>

\* C12: the step in which the resource gate refuses a request (the probe
\* returned and the request is dropped) puts exactly one CANCELED control
\* frame with the request's session_id and fragment_id on the channel and
\* reports LOW_MEMORY; the request has no TransferSession and no data frame.
C12_LowMemoryGate ==
    [][\A r \in Slots :
          (xfer[r].phase = "probing" /\ xfer'[r].phase = "dropped")
          => (/\ control'[r] = <<CancelMessage(xfer[r].sid, xfer[r].frag)>>
              /\ events'[r] = <<"STARTING", "LOW_MEMORY">>
              /\ ~Registered(r)'
              /\ frames'[r] = <<>>)]_vars

\* C13: STARTING is the first event of a request and is reported once;
\* a data frame is sent only after IN_PROGRESS; a terminal event comes only
\* after IN_PROGRESS; COMPLETED is reported only when the last frame sent
\* carries the last-chunk flag; a completed transfer reported exactly
\* STARTING, IN_PROGRESS, COMPLETED.
C13_StatusEventOrder ==
    \A r \in Slots :
        LET ev == events[r] IN
        /\ \A i \in 1..Len(ev) : (ev[i] = "STARTING") <=> (i = 1)
        /\ frames[r] # <<>> => Reported(ev, "IN_PROGRESS")
        /\ \A i \in 1..Len(ev) :
              ev[i] \in {"COMPLETED", "FAILED", "CANCELED"}
              => \E j \in 1..(i - 1) : ev[j] = "IN_PROGRESS"
        /\ Reported(ev, "COMPLETED")
           => (frames[r] # <<>> /\ frames[r][Len(frames[r])].last = 1)
        /\ xfer[r].status = "completed"
           => ev = <<"STARTING", "IN_PROGRESS", "COMPLETED">>

\* C14: the step that removes a peer from the map has, by its end, cancelled
\* the stats ticker and emitted the one final stats sample, released the
\* streams of the peer's sessions and emptied its transfers map, cleared the
\* inactivity timer, closed the data channel and closed the transport:
\* nothing of the teardown is left for later, whatever triggered it.
C14_TeardownSteps ==
    [][\A p \in Peers :
          (p \in peerConnections /\ p \notin peerConnections')
          => (/\ ~peer'[p].statsInterval
              /\ peer'[p].finalStats = 1
              /\ \A r \in Slots :
                    (xfer[r].peer = p /\ InMap(r)) => Released(xfer'[r].stream)
              /\ \A s \in Sessions : transferSessions'[p][s] = 0
              /\ ~peer'[p].timeoutId
              /\ peer'[p].dataChannel \in {"none", "closed"}
              /\ peer'[p].connection = "closed")]_vars

\* C15: whatever the sequence of teardown triggers, the data channel and the
\* transport of a peer are closed at most once each and at most one final
\* stats sample is emitted for it.
C15_CleanupIdempotent ==
    \A p \in Peers :
        /\ peer[p].channelCloses <= 1
        /\ peer[p].transportCloses <= 1
        /\ peer[p].finalStats <= 1

\* C16: a peer that cleanup removed is not in the map and none of its timers
\* is armed: not its inactivity timer, not its stats ticker and not the
\* activity-refresh ticker of any of its transfers.
C16_NoTimerAfterCleanup ==
    \A p \in Peers :
        (peer[p].created /\ p \notin peerConnections)
        => (/\ ~peer[p].timeoutId
            /\ ~peer[p].statsInterval
            /\ \A r \in Slots : xfer[r].peer = p => ~xfer[r].reportId)

\* the connection of the object is created and not closed
Live(c) == peer[c].created /\ peer[c].connection # "closed"

\* C17: at most one peer session per remote id is live at any time: while
\* the session of an id is not fully closed, no second connection exists for
\* the id.
C17_OneSessionPerRemoteId ==
    \A c, d \in Conns :
        (c # d /\ RemoteId(c) = RemoteId(d)) => ~(Live(c) /\ Live(d))

\* C18: a connectToPeer call for an id that has a session in the map creates
\* no connection, changes no session and emits no offer; every offer emitted
\* belongs to one session that a connectToPeer call created, so the calls
\* never produce more offers than sessions.
C18_ConnectIdempotent ==
    [][/\ (signal'.connects = signal.connects + 1 /\ peerConnections # {})
          => (/\ peer' = peer
              /\ peerConnections' = peerConnections
              /\ signal'.offers = signal.offers)
       /\ signal'.offers = Cardinality({c \in Conns : peer'[c].sdp = "offered"})
       /\ signal'.offers <= signal'.connects]_vars

\* C18 witness: connectToPeer was called twice, the second time while the
\* first was at its await; one session exists and one offer was emitted.
C18_Witness ==
    /\ signal.connects = 2
    /\ signal.offers = 1
    /\ peer["p1"].sdp = "offered"
    /\ "p1" \in peerConnections
    /\ ~peer["p2"].created

\* C19: a peer that is in the map has not been silent (no activity event, no
\* transfer in progress) for more than INACTIVITY_TIMEOUT at a run of the
\* inactivity checker: by then it was torn down.
C19_SilentPeerIsReaped ==
    \A c \in peerConnections :
        peer[c].silence * CheckInterval <= INACTIVITY_TIMEOUT

\* C20: a peer that is in the map has a lastActivity that was not older than
\* INACTIVITY_TIMEOUT at the last run of the inactivity checker, so a peer
\* whose timer was never armed leaves the map at the latest at the first run
\* that sees it older, less than INACTIVITY_TIMEOUT plus one period after its
\* creation.
C20_CheckerReapsUnarmedPeers ==
    \A c \in peerConnections :
        peer[c].age * CheckInterval <= INACTIVITY_TIMEOUT

\* C20 witness: a peer that answered an offer and never got further was
\* removed by the third run of the inactivity checker after its creation.
C20_Witness ==
    \E c \in Conns :
        /\ peer[c].sdp = "answered"
        /\ peer[c].dataChannel = "none"
        /\ peer[c].age * CheckInterval = INACTIVITY_TIMEOUT + CheckInterval
        /\ c \notin peerConnections
        /\ peer[c].transportCloses = 1

\* C21: a busy peer is not reaped: while a transfer of a peer is registered
\* and in progress, the peer's last activity is always younger than
\* INACTIVITY_TIMEOUT, so neither the inactivity timer is due nor does the
\* inactivity checker find the peer expired, however long the remote is
\* silent.
C21_BusyPeerIsNotReaped ==
    \A c \in Conns :
        (c \in peerConnections /\ Busy(c)) =>
            /\ peer[c].age * CheckInterval < INACTIVITY_TIMEOUT
            /\ ~TimerDue(c)
            /\ ~Expired(peer[c].age)

\* C21 witness: a transfer waits in back-pressure, its peer is in the map and
\* the checker has run three times since the last message of the remote.
C21_Witness ==
    \E r \in Slots :
        /\ xfer[r].pc = "waiting"
        /\ Busy(xfer[r].peer)
        /\ xfer[r].peer \in peerConnections
        /\ peer[xfer[r].peer].quiet * CheckInterval > INACTIVITY_TIMEOUT

\* C22: when the remote closes an open data channel, the peer session is torn
\* down by that step: the peer is no longer in the map and has no transfer in
\* progress.  (A close of the channel by cleanup counts in channelCloses; the
\* step meant here is the close by the remote.)
C22_RemoteCloseTearsDown ==
    [][\A c \in Conns :
          (/\ peer[c].dataChannel = "open"
           /\ peer'[c].dataChannel = "closed"
           /\ peer'[c].channelCloses = peer[c].channelCloses)
          => (c \notin peerConnections' /\ ~Busy(c)')]_vars

\* C23: when handleOffer fails at setRemoteDescription, createAnswer or
\* setLocalDescription, the session created for that offer is cleaned up (not
\* in the peer map, its connection closed) and no answer is emitted; when it
\* succeeds, exactly one answer is emitted by the step that follows
\* setLocalDescription.
C23_OfferFailureCleansUp ==
    [][\A c \in Conns :
          /\ (peer[c].sdp = "answering" /\ peer'[c].sdp = "failed")
             => /\ c \notin peerConnections'
                /\ peer'[c].connection = "closed"
                /\ signal'.answers = signal.answers
          /\ (peer[c].sdp = "answering" /\ peer'[c].sdp = "answered")
             => signal'.answers = signal.answers + 1]_vars

\* C24: a failure while applying a remote offer, a remote answer or a remote
\* ICE candidate for a peer tears that peer's session down: after the step
\* that handles the failure the session is not in the map and its connection
\* is closed.
C24_SignalingErrorTearsDown ==
    [][\A c \in Conns :
          (\/ (peer[c].sdp = "answering" /\ peer'[c].sdp = "failed")
           \/ (peer[c].answer = "pending" /\ peer'[c].answer = "failed")
           \/ (peer[c].ice = "pending" /\ peer'[c].ice = "failed"))
          => (c \notin peerConnections' /\ peer'[c].connection = "closed")]_vars

\* C25: handling an event for one peer does not terminate the process and
\* leaves the sessions of every other remote id as they were: their map entry,
\* timer, data channel and transfer sessions.
C25_PeerIsolation ==
    [][/\ alive'
       /\ \E c \in Conns :
            \A q \in Conns :
                RemoteId(q) # RemoteId(c) =>
                    /\ (q \in peerConnections') = (q \in peerConnections)
                    /\ peer'[q].timeoutId = peer[q].timeoutId
                    /\ peer'[q].dataChannel = peer[q].dataChannel
                    /\ transferSessions'[q] = transferSessions[q]]_vars

\* C26: the teardown of a peer and a CANCELED message of the remote end a
\* transfer in progress the same way: by the step that removes the peer from
\* the map, as by the step that cancels the session, the session has status
\* canceled, a CANCELED status event was emitted for it, its file handle is
\* released and its entry is removed; a session that has left the transfers
\* map without completing sends no frame.
C26_TeardownEqualsCancel ==
    [][\A r \in Slots :
          LET p == xfer[r].peer IN
          /\ (/\ InMap(r)
              /\ xfer[r].status = "in-progress"
              /\ \/ (p \in peerConnections /\ p \notin peerConnections')
                 \/ xfer'[r].status = "canceled")
             => /\ xfer'[r].status = "canceled"
                /\ Reported(events'[r], "CANCELED")
                /\ Released(xfer'[r].stream)
                /\ transferSessions'[p][xfer[r].sid] # r
          /\ (/\ xfer[r].phase = "streaming"
              /\ ~InMap(r)
              /\ xfer[r].status # "completed")
             => frames'[r] = frames[r]]_vars

\* C27: every sample of a peer session that was computed from a report with
\* an open data channel publishes the delta of the cumulative bytesSent
\* counter: the counter of its report minus the counter of the report of the
\* sample before (0 before the first).  bytesReceived is computed by the same
\* expression.
C27_CountersAreDeltas ==
    \A c \in Conns :
        \A k \in 1..Len(peer[c].samples) :
            LET sm == peer[c].samples IN
            (~sm[k].isDisconnected /\ sm[k].open) =>
                sm[k].bytesSent =
                    sm[k].counter - (IF k = 1 THEN 0 ELSE sm[k - 1].counter)

\* C28: isDisconnected is set on the final sample of a peer session only: a
\* sample with isDisconnected = true is the last sample published for the
\* session, so there is one at most and none follows it, and a session whose
\* teardown is over has published it.
C28_FinalSampleOnly ==
    \A c \in Conns :
        LET sm == peer[c].samples IN
        /\ \A k \in 1..Len(sm) : sm[k].isDisconnected => k = Len(sm)
        /\ (/\ peer[c].created
            /\ c \notin peerConnections
            /\ ~peer[c].closedEvent
            /\ peer[c].tick = "idle")
           => (sm # <<>> /\ sm[Len(sm)].isDisconnected)

\* the frame read by the layout: byte 0 is L, byte 1 the flag, L bytes of
\* session id, and the payload is what is left
Decode(b) ==
    [sid |-> SubSeq(b, 3, 2 + b[1]),
     last |-> b[2] = 1,
     payload |-> SubSeq(b, 3 + b[1], Len(b))]

\* C29: every frame passed to dataChannel.send has byte 0 = L, the byte length
\* of its session id, with 1 <= L <= 255, byte 1 = 0 or 1, then the session
\* id, then a payload of CHUNK_SIZE bytes at most, and reading the frame by
\* this layout gives back the session id, the flag and the payload it was
\* built from.
C29_FramingRoundTrip ==
    \A r \in Slots :
        \A k \in 1..Len(frames[r]) :
            LET f == frames[r][k] IN
            /\ f.bytes[1] = Len(f.sid)
            /\ f.bytes[1] \in 1..UInt8Max
            /\ f.bytes[2] \in {0, 1}
            /\ Len(f.payload) <= CHUNK_SIZE
            /\ Len(f.bytes) = 2 + f.bytes[1] + Len(f.payload)
            /\ Decode(f.bytes) = [sid |-> f.sid, last |-> f.last,
                                  payload |-> f.payload]

\* C30: the signaling servers are tried in list order: the k-th server
\* contacted is the k-th of the list.  A connect_error on a server that is not
\* the last advances serverIndex by one, contacts nobody and arms a timer of
\* 5 s; the next server is contacted by that timer and is the one at
\* serverIndex.  serverIndex never decreases and never exceeds the last
\* index.  A connect_error on the last server ends the process.  Every connect
\* starts a sign-up or a sign-in, and every sign-in that succeeds leaves the
\* device updates running with a period of 5 s.
C30_ReconnectPolicy ==
    [][/\ signal'.serverIndex >= signal.serverIndex
       /\ signal'.serverIndex <= NumServers - 1
       /\ \A k \in 1..Len(signal'.contacted) : signal'.contacted[k] = k - 1
       /\ (signal'.event = "connect_error" /\ signal.serverIndex < NumServers - 1)
          => /\ signal'.serverIndex = signal.serverIndex + 1
             /\ signal'.contacted = signal.contacted
             /\ signal'.socket = "closed"
             /\ signal'.timer /\ signal'.delay = 5000
             /\ alive'
       /\ (signal'.event = "connect_error" /\ signal.serverIndex = NumServers - 1)
          => ~alive'
       /\ (signal'.contacted # signal.contacted /\ signal.socket # "none")
          => /\ signal.timer
             /\ signal'.contacted = Append(signal.contacted, signal.serverIndex)
             /\ signal'.uri = signal.serverIndex
       /\ signal'.event = "connect"
          => signal'.signUps + signal'.signIns = signal.signUps + signal.signIns + 1
       /\ signal'.event = "signed-up" => signal'.signIns = signal.signIns + 1
       /\ signal'.event = "signed-in" => signal'.updateInterval = 5000]_vars

\* C30 witness: two servers failed, the third was contacted by the timer and
\* connected, the node signed in and the device updates run.
C30_Witness ==
    /\ alive
    /\ signal.contacted = <<0, 1, 2>>
    /\ signal.serverIndex = 2
    /\ signal.socket = "open"
    /\ signal.event = "signed-in"
    /\ signal.updateInterval = DeviceUpdateInterval

\* C31: the fragment index and the disk agree after every command: every id
\* in the index has a file on disk, an id that a delete command names is not
\* in the index afterwards, a download adds an id only with its file fully
\* written, and after startup the index holds exactly the files of the remote
\* directory.
C31_IndexMatchesDisk ==
    [][/\ \A f \in signal'.fragmentMap : signal'.disk[f] # "none"
       /\ \A f \in signal'.fragmentMap \ signal.fragmentMap :
            signal'.disk[f] = "file"
       /\ signal'.command = "startup"
          => signal'.fragmentMap = {f \in FragIds : signal'.disk[f] = "file"}]_vars

\* C39: when the stream of a download fails part-way, the partial file
\* <path>/<id> is deleted, the id is not added to the index nor to the
\* results, and the loop goes on with the next URL of the command.
C39_FailedDownloadLeavesNothing ==
    [][signal.stream = "piping" /\ signal'.command = "failed"
       => LET id == signal.urls[signal.pos] IN
          /\ signal'.disk[id] = "none"
          /\ signal'.fragmentMap = signal.fragmentMap
          /\ signal'.results = signal.results
          /\ signal'.pos = signal.pos + 1
          /\ signal'.stream = "head"]_vars

C33_CleanupIsOwnSessionOnly ==
    [][\A r \in Slots :
         xfer[r].status = "in-progress" /\ Terminal(xfer'[r].status)
         => \A q \in Slots \ {r} :
              /\ xfer'[q].stream = xfer[q].stream
              /\ \A p \in Conns, s \in Sessions :
                   transferSessions[p][s] = q => transferSessions'[p][s] = q]_vars

\* C34: a READY_NODE request whose peer was torn down while the request was
\* in the memory probe does nothing when the probe returns: no session is
\* registered, IN_PROGRESS is not reported, no file stream is opened and
\* nothing is sent on the channel.
C34_NoStartAfterTeardown ==
    [][\A r \in Slots :
         /\ xfer[r].phase = "probing"
         /\ xfer'[r].phase # "probing"
         /\ xfer[r].peer \notin peerConnections
         => /\ transferSessions' = transferSessions
            /\ events'[r] = events[r]
            /\ xfer'[r].stream = xfer[r].stream
            /\ xfer'[r].status = "none"
            /\ control'[r] = control[r]
            /\ alive' = alive]_vars

\* the step calls dataChannel.send for request r: sendCancelMessage after the
\* resource gate refused, sendChunk from a 'data' handler, or sendChunk after
\* the wait for the buffer
CallsSend(r) ==
    \/ xfer[r].phase = "probing" /\ xfer'[r].phase = "dropped"
    \/ /\ xfer[r].stream = "flowing" /\ xfer[r].pc = "idle"
       /\ ~xfer[r].canceled
       /\ xfer'[r].pos > xfer[r].pos /\ xfer'[r].pc = "idle"
    \/ /\ xfer[r].pc = "waiting" /\ xfer'[r].pc = "idle"
       /\ BufferDrained(bufferedAmount[xfer[r].peer])

\* C35: every send of the fragment streamer on a data channel, of a data
\* frame or of a CANCELED control frame, is made while the readyState of the
\* channel is open.
C35_SendOnlyOnOpenChannel ==
    [][\A r \in Slots :
         CallsSend(r) => peer[xfer[r].peer].dataChannel = "open"]_vars

\* the step is a callback of connection object c: its connection-state-change
\* handler, its inactivity timer, or its offer handler resumed after an await
CallbackOf(c) ==
    \/ \E st \in {"connected", "failed", "disconnected", "closed"} :
          OnConnectionStateChange(c, st)
    \/ OnClosedEvent(c)
    \/ OnInactivityExpired(c)
    \/ \E ok \in BOOLEAN : OnOfferApplied(c, ok)

\* C36: a callback of an earlier connection of a remote id, one that a newer
\* session has replaced in the map, leaves the newer session in the map and
\* as it was.
C36_OldCallbacksSpareNewSession ==
    [][\A c, d \in Conns :
         /\ c # d
         /\ peer[c].created /\ c \notin peerConnections
         /\ d \in peerConnections /\ RemoteId(d) = RemoteId(c)
         /\ CallbackOf(c)
         => /\ d \in peerConnections'
            /\ peer'[d] = peer[d]]_vars

\* C37: every step that ends a transfer in progress (end of file, read
\* error, back-pressure deadline, CANCELED of the remote) stops the 5-second
\* ticker of the transfer, and the ticker of a transfer that has ended never
\* refreshes the last activity of the peer.
C37_EndedTransferStopsTicker ==
    [][\A r \in Slots :
         /\ (xfer[r].status = "in-progress" /\ Terminal(xfer'[r].status))
            => ~xfer'[r].reportId
         /\ (Terminal(xfer[r].status) /\ OnReportProgress(r))
            => ~\E q \in Conns : InMapFor(q, xfer[r].peer)]_vars

\* C38: a peer entry has at most one pending inactivity timer, and the
\* pending timer expires INACTIVITY_TIMEOUT after the last activity that is
\* recorded for the entry; a step arms or re-arms no timer for an entry that
\* is not in the map.
C38_OnePendingTimer ==
    [][\A c \in Conns :
         /\ peer'[c].timers <= 1
         /\ peer'[c].timeoutId <=> peer'[c].timers = 1
         /\ peer'[c].timeoutId => peer'[c].armed = peer'[c].age
         /\ (c \notin peerConnections /\ c \notin peerConnections'
             /\ peer'[c].timeoutId)
            => (peer[c].timeoutId /\ peer'[c].armed >= peer[c].armed)]_vars

\* the timer of a peer in the map was armed, a period went by, and the
\* ticker of a transfer armed it again
C38_Witness ==
    \E c \in peerConnections :
        /\ peer[c].timeoutId /\ peer[c].timers = 1
        /\ peer[c].quiet > peer[c].age

====
